---- MODULE Spec2Model ----
(***************************************************************************)
(* Request orchestration layer of the CenterFuze OpenText service:        *)
(*   - CacheManager   (src/app/utils/cache_manager.py)                     *)
(*   - RateLimiter and AdaptiveRateLimiter                                 *)
(*                    (src/app/utils/rate_limiter.py)                      *)
(*   - OpenTextService._make_request / get_account / get_accounts_batch    *)
(*                    (src/app/services/opentext_service.py)               *)
(*                                                                         *)
(* Time is observed in whole seconds.  The service runs on one asyncio     *)
(* event loop, so an action is the code a task runs between two            *)
(* suspension points.  The bodies guarded by the cache lock contain no     *)
(* await, so the cache lock is never held across a suspension and every    *)
(* cache operation is one atomic step.                                     *)
(***************************************************************************)
EXTENDS Integers, Sequences, FiniteSets, TLC

(***************************************************************************)
(* Bounds of the model                                                     *)
(***************************************************************************)
MaxItems == 3
MaxSkew == 1
MaxShutdowns == 2
MaxCallers == 2
MaxAsked == 2
MaxResponses == 1

\* the try_acquire calls of one run of a burst
MaxAttempts == 4

\* the record_response calls of one run with responses of every kind
MaxSamples == 4

\* the record_response calls of one run of good responses
MaxGoodRun == 300

(***************************************************************************)
(* Configuration of the service instance                                   *)
(***************************************************************************)
batch_size == 2
max_concurrent_requests == 1
requests_per_second == 1
burst_capacity == 2

\* the rate an AdaptiveRateLimiter used on its own is constructed with
initial_requests_per_second == 2

\* cache_ttl passed by get_account to _make_request
account_cache_ttl == 600

\* aiohttp.ClientTimeout(total=30)
request_timeout == 30

Ids == {"a", "b"}

\* the instants at which the clock is observed: up to MaxSkew seconds after
\* a whole number of TTL periods
Times == {j * account_cache_ttl + s : j \in {0, 1}, s \in 0..MaxSkew}

(***************************************************************************)
(* Python values that flow through the cache and the service               *)
(***************************************************************************)
NoId == "-"

PyNone == [type |-> "None", keys |-> {}, id |-> NoId]

\* a JSON object, by the set of keys it carries and the account it names
Dict(keys, id) == [type |-> "dict", keys |-> keys, id |-> id]

AccountDoc(id) == Dict({"account_id", "account_name"}, id)

\* the account as update_account sent it: account.to_dict() with last_updated
UpdatedDoc(id) == Dict({"account_id", "account_name", "last_updated"}, id)

EmptyDoc == Dict({}, NoId)

MalformedDoc == Dict({"error"}, NoId)

Documents == {AccountDoc(id) : id \in Ids} \cup {EmptyDoc, MalformedDoc}

\* a raised exception, by its class
Exc(cls) == [type |-> "Exception", keys |-> {}, id |-> cls]

IsException(v) == v.type = "Exception"

\* the values stored through direct cache calls
Values == {AccountDoc("a"), EmptyDoc}

\* Python truth value of an object: None and the empty dict are falsy
Truthy(v) == v.type # "None" /\ ~(v.type = "dict" /\ v.keys = {})

(***************************************************************************)
(* State                                                                   *)
(***************************************************************************)
BatchTasks == 1..MaxItems

\* one caller of get_account outside the batch
SoloTasks == {MaxItems + 1}

\* one caller of update_account
UpdateTasks == {MaxItems + MaxCallers + 2}

Tasks == BatchTasks \cup SoloTasks \cup UpdateTasks

NoTask == 0

NoTime == -1

VARIABLES
    now,            \* time.time() / datetime.now(), in seconds
    cache,          \* CacheManager._cache : key -> CacheEntry
    ret,            \* value returned by the last direct cache call
    op,             \* the last direct cache call
    last_set,       \* per key, the last set() not yet followed by a mutation
    current_tokens, \* RateLimiter.current_tokens
    last_refill,    \* RateLimiter.last_refill (NoTime: None)
    limiter_lock,   \* the task holding RateLimiter._lock (NoTask: unlocked)
    lock_waiters,   \* tasks queued on RateLimiter._lock, first come first
    sleep,          \* the asyncio.sleep of the task holding the limiter lock
    semaphore,      \* OpenTextService._semaphore: free slots
    pc,             \* per task, where its get_account coroutine is suspended
    arg,            \* per task, the account_id it was called with
    result,         \* per task, what get_account returned or raised
    last_response,  \* the outcome of the upstream call that ended last
    account_ids,    \* get_accounts_batch: the input list
    batch_i,        \* get_accounts_batch: the loop index i
    accounts,       \* get_accounts_batch: the list being built
    batch_pc,       \* get_accounts_batch: where the coroutine is
    done_order,     \* tasks of the current chunk in the order they finished
    cache_locked,   \* CacheManager._lock is held
    expect,         \* per key, the entry the last completed mutation left
    sweep_pc,       \* where the _cleanup_loop task is
    sweep_wake,     \* when the asyncio.sleep of _cleanup_loop is over
    shutdown_pc,    \* where the shutdown() coroutine is
    shutdowns,      \* the number of shutdown() calls made
    rps,            \* RateLimiter.requests_per_second, in thousandths
    cap,            \* RateLimiter.max_tokens
    adaptive,       \* the limiter is an AdaptiveRateLimiter
    responses,      \* the number of record_response() calls made
    lim_pc,         \* per direct caller of the limiter, where it is suspended
    lim_call,       \* per direct caller of the limiter, the call it is in
    waits,          \* per direct caller, the sleeps of its acquire so far
    attempts,       \* the try_acquire(1) calls of a burst: time and outcome
    trail,          \* per task, the steps its request has taken, in order
    unswept,        \* the map the same calls leave when no sweep ever runs
    granted,        \* tokens granted since construction (NoCount: not counted)
    updated,        \* the accounts the upstream API has applied an update to
    stale           \* GETs in flight that upstream served before the update

cacheVars == <<cache, ret, op, last_set>>

limiterVars == <<current_tokens, last_refill, limiter_lock, lock_waiters, sleep>>

taskVars == <<pc, arg, result, last_response, trail>>

batchVars == <<account_ids, batch_i, accounts, batch_pc, done_order>>

sweepVars == <<sweep_pc, sweep_wake, shutdown_pc, shutdowns>>

adaptVars == <<rps, cap, adaptive, responses>>

callerVars == <<lim_pc, lim_call, waits, attempts, granted>>

updateVars == <<updated, stale>>

vars == <<now, cache, ret, op, last_set, current_tokens, last_refill, limiter_lock,
          lock_waiters, sleep, semaphore, pc, arg, result, last_response,
          account_ids, batch_i, accounts, batch_pc, done_order,
          cache_locked, expect, sweep_pc, sweep_wake, shutdown_pc, shutdowns,
          rps, cap, adaptive, responses, lim_pc, lim_call, waits, attempts, trail,
          unswept, granted, updated, stale>>

(***************************************************************************)
(* CacheManager                                                            *)
(***************************************************************************)
CacheKeyOf(id) == "account:" \o id

Keys == {CacheKeyOf(id) : id \in Ids}

CacheEntry(value, expires_at) == [value |-> value, expires_at |-> expires_at]

TTLs == (1..MaxSkew) \cup {account_cache_ttl}

Remove(c, k) == [x \in (DOMAIN c) \ {k} |-> c[x]]

Put(c, k, e) == [x \in (DOMAIN c) \cup {k} |-> IF x = k THEN e ELSE c[x]]

\* entry.expires_at <= time.time()
ExpiredMutant(e, t) == e.expires_at < t
Expired(e, t) == e.expires_at <= t

\* CacheManager.get: the value it returns
CacheGetValue(c, k, t) ==
    IF k \notin DOMAIN c THEN PyNone
    ELSE IF Expired(c[k], t) THEN PyNone
    ELSE c[k].value

\* CacheManager.get: the map it leaves
CacheGetMap(c, k, t) ==
    IF k \notin DOMAIN c THEN c
    ELSE IF Expired(c[k], t) THEN Remove(c, k)
    ELSE c

\* CacheManager.set
CacheSetMapMutant(c, k, v, ttl, t) == Put(c, k, CacheEntry(v, t + 300))
CacheSetMap(c, k, v, ttl, t) == Put(c, k, CacheEntry(v, t + ttl))

\* CacheManager.delete
CacheDeleteMap(c, k) == IF k \in DOMAIN c THEN Remove(c, k) ELSE c

NoSet == [at |-> -1, ttl |-> 0, value |-> PyNone]

\* the entry a key is left without by a delete, a clear or a shutdown
Absent == [present |-> FALSE, value |-> PyNone, expires_at |-> NoTime]

Present(e) == [present |-> TRUE, value |-> e.value, expires_at |-> e.expires_at]

PyBool(b) == [type |-> "bool", keys |-> {}, id |-> IF b THEN "True" ELSE "False"]

PyInt(n) == [type |-> "int", keys |-> {}, id |-> ToString(n)]

\* a list of cache keys, by the keys it holds
PyKeyList(ks) == [type |-> "list", keys |-> ks, id |-> NoId]

\* _cleanup_loop sleeps cleanup_interval seconds between two sweeps
cleanup_interval == 300

\* the pattern argument of clear and get_keys: None, or the text of a regular
\* expression, which re.compile accepts or rejects with re.error.  An accepted
\* text is a literal, followed or not by ".*".
NoPattern == [text |-> "None", compiles |-> TRUE, literal |-> ""]

Regex(text, literal) == [text |-> text, compiles |-> TRUE, literal |-> literal]

Malformed(text) == [text |-> text, compiles |-> FALSE, literal |-> ""]

Regexes == {Regex("account:.*", "account:"), Regex("account:a", "account:a"),
            Regex("b", "b"), Malformed("account:(")}

Patterns == {NoPattern} \cup Regexes

\* the ends a cache key can have after a literal
KeyTails == {""} \cup Ids \cup Keys

\* regex.match(key): the expression matches at the start of the key; a literal
\* followed or not by ".*" matches there when the key starts with the literal
ReMatchMutant(p, key) ==
    \E head \in {"", "account:"}, tail \in KeyTails : key = head \o p.literal \o tail
ReMatch(p, key) == \E tail \in KeyTails : key = p.literal \o tail

\* async with self._lock: whether the lock is still held once the block was
\* left, normally or by an exception
AsyncWithMutant(raised) == raised
AsyncWith(raised) == FALSE

\* CacheManager.touch: its return value
CacheTouchValueMutant(c, k, t) == k \in DOMAIN c
CacheTouchValue(c, k, t) == k \in DOMAIN c /\ ~Expired(c[k], t)

\* CacheManager.touch: the map it leaves
CacheTouchMap(c, k, ttl, t) ==
    IF CacheTouchValue(c, k, t)
    THEN Put(c, k, CacheEntry(c[k].value, t + ttl))
    ELSE c

\* CacheManager.clear: keys_to_delete
KeysToDeleteMutant(c, p) ==
    IF p = NoPattern THEN DOMAIN c
    ELSE IF ~p.compiles THEN DOMAIN c
    ELSE {k \in DOMAIN c : ReMatch(p, k)}
KeysToDelete(c, p) ==
    IF p = NoPattern THEN DOMAIN c
    ELSE IF ~p.compiles THEN {}
    ELSE {k \in DOMAIN c : ReMatch(p, k)}

\* CacheManager.clear: the map it leaves
CacheClearMap(c, p) == [x \in (DOMAIN c) \ KeysToDelete(c, p) |-> c[x]]

\* CacheManager.clear: what it returns or raises
CacheClearValue(c, p) ==
    IF p # NoPattern /\ ~p.compiles THEN Exc("re.error")
    ELSE PyInt(Cardinality(KeysToDelete(c, p)))

\* CacheManager.get_keys: what it returns or raises
CacheGetKeysValue(c, p) ==
    IF p = NoPattern THEN PyKeyList(DOMAIN c)
    ELSE IF ~p.compiles THEN Exc("re.error")
    ELSE PyKeyList({k \in DOMAIN c : ReMatch(p, k)})

\* CacheManager._cleanup_expired: the map it leaves
CleanupExpiredMutant(c, t) == [x \in {k \in DOMAIN c : FALSE} |-> c[x]]
CleanupExpiredStrict(c, t) == [x \in {k \in DOMAIN c : ~ExpiredMutant(c[k], t)} |-> c[x]]
CleanupExpiredEarly(c, t) ==
    [x \in {k \in DOMAIN c : ~Expired(c[k], t + cleanup_interval)} |-> c[x]]
CleanupExpired(c, t) == [x \in {k \in DOMAIN c : ~Expired(c[k], t)} |-> c[x]]

Get(k) ==
    /\ ~cache_locked
    /\ ret' = CacheGetValue(cache, k, now)
    /\ cache' = CacheGetMap(cache, k, now)
    /\ unswept' = CacheGetMap(unswept, k, now)
    /\ op' = [name |-> "get", key |-> k]
    /\ UNCHANGED <<updateVars, adaptVars, callerVars, cache_locked, expect, sweepVars, now, last_set,
                   limiterVars, semaphore, taskVars, batchVars>>

Set(k, v, ttl) ==
    /\ ~cache_locked
    /\ cache' = CacheSetMap(cache, k, v, ttl, now)
    /\ unswept' = CacheSetMap(unswept, k, v, ttl, now)
    /\ ret' = PyNone
    /\ op' = [name |-> "set", key |-> k]
    /\ last_set' = [last_set EXCEPT ![k] = [at |-> now, ttl |-> ttl, value |-> v]]
    /\ expect' = [expect EXCEPT ![k] = Present(CacheEntry(v, now + ttl))]
    /\ UNCHANGED <<updateVars, adaptVars, callerVars, cache_locked, sweepVars, now, limiterVars, semaphore,
                   taskVars, batchVars>>

Delete(k) ==
    /\ ~cache_locked
    /\ cache' = CacheDeleteMap(cache, k)
    /\ unswept' = CacheDeleteMap(unswept, k)
    /\ ret' = [type |-> "bool", keys |-> {}, id |-> IF k \in DOMAIN cache THEN "True" ELSE "False"]
    /\ op' = [name |-> "delete", key |-> k]
    /\ last_set' = [last_set EXCEPT ![k] = NoSet]
    /\ expect' = [expect EXCEPT ![k] = Absent]
    /\ UNCHANGED <<updateVars, adaptVars, callerVars, cache_locked, sweepVars, now, limiterVars, semaphore,
                   taskVars, batchVars>>

\* CacheManager.exists: await self.get(key) is not None
Exists(k) ==
    /\ ~cache_locked
    /\ ret' = PyBool(CacheGetValue(cache, k, now) # PyNone)
    /\ cache' = CacheGetMap(cache, k, now)
    /\ unswept' = CacheGetMap(unswept, k, now)
    /\ op' = [name |-> "exists", key |-> k]
    /\ UNCHANGED <<updateVars, adaptVars, callerVars, cache_locked, expect, sweepVars, now, last_set,
                   limiterVars, semaphore, taskVars, batchVars>>

Touch(k, ttl) ==
    /\ ~cache_locked
    /\ ret' = PyBool(CacheTouchValue(cache, k, now))
    /\ cache' = CacheTouchMap(cache, k, ttl, now)
    /\ unswept' = CacheTouchMap(unswept, k, ttl, now)
    /\ op' = [name |-> "touch", key |-> k, ttl |-> ttl]
    /\ IF CacheTouchValue(cache, k, now)
       THEN /\ last_set' = [last_set EXCEPT ![k] = NoSet]
            /\ expect' = [expect EXCEPT ![k] = Present(CacheEntry(expect[k].value, now + ttl))]
       ELSE UNCHANGED <<last_set, expect>>
    /\ UNCHANGED <<updateVars, adaptVars, callerVars, cache_locked, sweepVars, now, limiterVars, semaphore,
                   taskVars, batchVars>>

Clear(p) ==
    /\ ~cache_locked
    /\ ret' = CacheClearValue(cache, p)
    /\ cache' = CacheClearMap(cache, p)
    /\ unswept' = CacheClearMap(unswept, p)
    /\ cache_locked' = AsyncWith(IsException(CacheClearValue(cache, p)))
    /\ op' = [name |-> "clear", key |-> p.text]
    /\ last_set' = [k \in Keys |-> IF k \in KeysToDelete(cache, p) THEN NoSet ELSE last_set[k]]
    /\ expect' = [k \in Keys |->
                     IF IsException(CacheClearValue(cache, p)) THEN expect[k]
                     ELSE IF p = NoPattern \/ ReMatch(p, k) THEN Absent
                     ELSE expect[k]]
    /\ UNCHANGED <<updateVars, adaptVars, callerVars, sweepVars, now, limiterVars, semaphore, taskVars,
                   batchVars>>

GetKeys(p) ==
    /\ ~cache_locked
    /\ ret' = CacheGetKeysValue(cache, p)
    /\ cache_locked' = AsyncWith(IsException(CacheGetKeysValue(cache, p)))
    /\ op' = [name |-> "get_keys", key |-> p.text]
    /\ UNCHANGED <<updateVars, adaptVars, callerVars, cache, expect, unswept, sweepVars, now, last_set, limiterVars,
                   semaphore, taskVars, batchVars>>

\* the task created by _start_cleanup_task runs for the first time and
\* suspends in asyncio.sleep(cleanup_interval)
SweepStart ==
    /\ sweep_pc = "created"
    /\ sweep_pc' = "sleeping"
    /\ sweep_wake' = now + cleanup_interval
    /\ op' = [name |-> "sweep_start", key |-> ""]
    /\ UNCHANGED <<updateVars, adaptVars, callerVars, cache_locked, expect, unswept, shutdown_pc, shutdowns, now,
                   cache, ret, last_set,
                   limiterVars, semaphore, taskVars, batchVars>>

\* the sleep is over: _cleanup_expired, then the next sleep
Sweep ==
    /\ sweep_pc = "sleeping"
    /\ now >= sweep_wake
    /\ ~cache_locked
    /\ cache' = CleanupExpired(cache, now)
    /\ sweep_wake' = now + cleanup_interval
    /\ op' = [name |-> "sweep", key |-> "",
              removed |-> (DOMAIN cache) \ (DOMAIN CleanupExpired(cache, now))]
    /\ UNCHANGED <<updateVars, adaptVars, callerVars, cache_locked, expect, unswept, sweep_pc, shutdown_pc,
                   shutdowns, now, ret, last_set,
                   limiterVars, semaphore, taskVars, batchVars>>

\* _cleanup_loop when the cancellation reaches it: except
\* asyncio.CancelledError: break
CancelledErrorHandlerMutant == "sleeping"
CancelledErrorHandler == "finished"

\* shutdown: await self._cleanup_task resumes once the task is done
AwaitCleanupTaskMutant(task) == TRUE
AwaitCleanupTask(task) == task = "finished"

\* shutdown: self._cache.clear() under the lock, then return
ShutdownClear ==
    /\ ~cache_locked
    /\ cache' = << >>
    /\ unswept' = << >>
    /\ last_set' = [k \in Keys |-> NoSet]
    /\ expect' = [k \in Keys |-> Absent]
    /\ shutdown_pc' = "returned"
    /\ op' = [name |-> "shutdown_return", key |-> ""]

\* shutdown() is called: a cleanup task that is not done is cancelled and
\* awaited, otherwise the map is cleared at once
ShutdownCall ==
    /\ shutdown_pc \in {"idle", "returned"}
    /\ shutdowns < MaxShutdowns
    /\ shutdowns' = shutdowns + 1
    /\ IF sweep_pc # "finished"
       THEN /\ sweep_pc' = "cancelling"
            /\ shutdown_pc' = "awaiting"
            /\ op' = [name |-> "shutdown_call", key |-> ""]
            /\ UNCHANGED <<cache, last_set, expect, unswept>>
       ELSE /\ ShutdownClear
            /\ UNCHANGED sweep_pc
    /\ UNCHANGED <<updateVars, adaptVars, callerVars, cache_locked, sweep_wake, now, ret, limiterVars,
                   semaphore, taskVars, batchVars>>

\* the cancellation is delivered to the cleanup task
SweepCancelled ==
    /\ sweep_pc = "cancelling"
    /\ sweep_pc' = CancelledErrorHandler
    /\ op' = [name |-> "sweep_cancelled", key |-> ""]
    /\ UNCHANGED <<updateVars, adaptVars, callerVars, cache_locked, expect, unswept, sweep_wake, shutdown_pc,
                   shutdowns, now, cache, ret,
                   last_set, limiterVars, semaphore, taskVars, batchVars>>

\* shutdown resumes after the await
ShutdownReturn ==
    /\ shutdown_pc = "awaiting"
    /\ AwaitCleanupTask(sweep_pc)
    /\ ShutdownClear
    /\ UNCHANGED <<updateVars, adaptVars, callerVars, cache_locked, sweep_pc, sweep_wake, shutdowns, now,
                   ret, limiterVars,
                   semaphore, taskVars, batchVars>>

(***************************************************************************)
(* RateLimiter                                                             *)
(***************************************************************************)
Min(a, b) == IF a <= b THEN a ELSE b

\* RateLimiter.__init__: burst_capacity or int(requests_per_second)
max_tokens == IF burst_capacity # 0 THEN burst_capacity ELSE requests_per_second

NoSleep == [start |-> NoTime, needed |-> 0]

\* RateLimiter._refill_tokens at time t: the token count and last_refill it leaves
RefillTokens(tokens, lr, t) ==
    IF lr = NoTime THEN [tokens |-> tokens, last_refill |-> t]
    ELSE LET tokens_to_add == (t - lr) * requests_per_second
         IN  IF tokens_to_add >= 1
             THEN [tokens |-> Min(max_tokens, tokens + tokens_to_add), last_refill |-> t]
             ELSE [tokens |-> tokens, last_refill |-> lr]

\* asyncio.sleep(tokens_needed / requests_per_second) started at sl.start is over
SleepOver(sl, t) == (t - sl.start) * requests_per_second >= sl.needed

(***************************************************************************)
(* OpenTextService._make_request and get_account                           *)
(***************************************************************************)
Account(id) == [type |-> "OpenTextAccount", keys |-> {}, id |-> id]

IsAccount(v) == v.type = "OpenTextAccount"

Successes == {"ok", "empty", "malformed"}

Failures == {"status_error", "client_error", "timeout", "bad_json"}

Outcomes == Successes \cup Failures

NoResponse == "none"

\* the subclasses of aiohttp.ClientError and of Exception that occur
ClientErrors == {"ClientError"}

ExceptionClasses ==
    {"OpenTextAPIError", "ClientError", "TimeoutError", "JSONDecodeError", "KeyError"}

\* what the body of the try block yields for an upstream outcome: the parsed
\* document, or the exception raised there
TryBody(id, o) ==
    CASE o = "ok" -> AccountDoc(id)
      [] o = "empty" -> EmptyDoc
      [] o = "malformed" -> MalformedDoc
      [] o = "status_error" -> Exc("OpenTextAPIError")
      [] o = "client_error" -> Exc("ClientError")
      [] o = "timeout" -> Exc("TimeoutError")
      [] o = "bad_json" -> Exc("JSONDecodeError")

\* the except clauses of _make_request: the class that leaves the function
\* except aiohttp.ClientError, then except Exception
ExceptClausesMutant(cls) == IF cls \in ClientErrors THEN "OpenTextAPIError" ELSE cls
ExceptClauses(cls) ==
    IF cls \in ClientErrors THEN "OpenTextAPIError"
    ELSE IF cls \in ExceptionClasses THEN "OpenTextAPIError"
    ELSE cls

\* OpenTextAccount.from_dict: data["account_id"] and data["account_name"]
FromDict(doc) ==
    IF {"account_id", "account_name"} \subseteq doc.keys
    THEN Account(doc.id)
    ELSE Exc("KeyError")

\* get_account around _make_request: r is the document _make_request returned
\* or the exception it raised
GetAccountResult(r) ==
    IF IsException(r)
    THEN IF r.id = "OpenTextAPIError" THEN PyNone ELSE r
    ELSE FromDict(r)

\* update_account around _make_request: True, or False on OpenTextAPIError
UpdateAccountResult(r) == PyBool(~IsException(r))

\* health_check around _make_request: the report it returns
HealthCheckResult(r) ==
    IF IsException(r) THEN Dict({"status", "error"}, NoId)
    ELSE Dict({"status", "api_status"}, NoId)

\* the cache lookup of _make_request counts as a hit
CacheHit(cached_result) == Truthy(cached_result)

Finished(t, value) ==
    /\ result' = [result EXCEPT ![t] = value]
    /\ done_order' = IF t \in BatchTasks THEN Append(done_order, t) ELSE done_order

\* async with self._semaphore, entered by t
EnterSemaphoreMutant(t) ==
    /\ semaphore' = semaphore - 1
    /\ pc' = [pc EXCEPT ![t] = "inflight"]
EnterSemaphore(t) ==
    IF semaphore > 0
    THEN /\ semaphore' = semaphore - 1
         /\ pc' = [pc EXCEPT ![t] = "inflight"]
    ELSE /\ semaphore' = semaphore
         /\ pc' = [pc EXCEPT ![t] = "sem_wait"]

\* RateLimiter.acquire, with the lock held by t: the while loop from its test
AcquireLoopMutant(t, tokens, lr) ==
    /\ last_refill' = lr
    /\ current_tokens' = tokens
    /\ limiter_lock' = NoTask
    /\ sleep' = NoSleep
    /\ EnterSemaphore(t)
AcquireLoop(t, tokens, lr) ==
    /\ last_refill' = lr
    /\ IF tokens < 1
       THEN /\ current_tokens' = tokens
            /\ limiter_lock' = t
            /\ sleep' = [start |-> now, needed |-> 1 - tokens]
            /\ pc' = [pc EXCEPT ![t] = "sleeping"]
            /\ UNCHANGED semaphore
       ELSE /\ current_tokens' = tokens - 1
            /\ limiter_lock' = NoTask
            /\ sleep' = NoSleep
            /\ EnterSemaphore(t)

\* _make_request: method == 'GET' and cache_key; get_account sends a GET with
\* the key of the account, health_check a GET with no key, update_account a PUT
HasCacheKey(t) == arg[t] # NoId /\ t \notin UpdateTasks

\* the steps a request takes in one move of its task: the cache lookup if it
\* made one, one "token" per token that acquire subtracted from the count it
\* tested, and the upstream call if the move started it
Steps(t, lookup, took) ==
    trail' = [trail EXCEPT ![t] =
                 @ \o (IF lookup THEN <<"lookup">> ELSE << >>)
                   \o [j \in 1..took |-> "token"]
                   \o (IF pc[t] # "inflight" /\ pc'[t] = "inflight"
                       THEN <<"upstream">> ELSE << >>)]

\* get_account(arg[t]) or health_check() runs from its start to its first
\* suspension
Start(t) ==
    /\ pc[t] = "created"
    /\ \A u \in BatchTasks : (t \in BatchTasks /\ u < t) => pc[u] # "created"
    /\ LET cache_key == CacheKeyOf(arg[t])
           cached_result == IF HasCacheKey(t) THEN CacheGetValue(cache, cache_key, now)
                                              ELSE PyNone
       IN  /\ cache' = IF HasCacheKey(t) THEN CacheGetMap(cache, cache_key, now) ELSE cache
           /\ unswept' = IF HasCacheKey(t) THEN CacheGetMap(unswept, cache_key, now)
                                          ELSE unswept
           /\ IF CacheHit(cached_result)
              THEN /\ pc' = [pc EXCEPT ![t] = "done"]
                   /\ Finished(t, GetAccountResult(cached_result))
                   /\ UNCHANGED <<limiterVars, semaphore>>
              ELSE /\ UNCHANGED <<result, done_order>>
                   /\ IF limiter_lock # NoTask \/ lock_waiters # << >>
                      THEN /\ lock_waiters' = Append(lock_waiters, t)
                           /\ pc' = [pc EXCEPT ![t] = "lock_wait"]
                           /\ UNCHANGED <<current_tokens, last_refill, limiter_lock,
                                          sleep, semaphore>>
                      ELSE /\ lock_waiters' = lock_waiters
                           /\ AcquireLoop(t, current_tokens, last_refill)
    /\ Steps(t, HasCacheKey(t), current_tokens - current_tokens')
    /\ UNCHANGED <<updateVars, adaptVars, callerVars, cache_locked, expect, sweepVars, now, ret, op,
                   last_set, arg, last_response,
                   account_ids, batch_i, accounts, batch_pc>>

\* the first waiter of the limiter lock gets it
LockWake(t) ==
    /\ pc[t] = "lock_wait"
    /\ limiter_lock = NoTask
    /\ lock_waiters # << >>
    /\ Head(lock_waiters) = t
    /\ lock_waiters' = Tail(lock_waiters)
    /\ AcquireLoop(t, current_tokens, last_refill)
    /\ Steps(t, FALSE, current_tokens - current_tokens')
    /\ UNCHANGED <<updateVars, adaptVars, callerVars, cache_locked, expect, unswept, sweepVars, now, cacheVars, arg,
                   result, last_response, batchVars>>

\* the sleep inside acquire is over: refill and test again
SleepWake(t) ==
    /\ pc[t] = "sleeping"
    /\ limiter_lock = t
    /\ SleepOver(sleep, now)
    /\ LET r == RefillTokens(current_tokens, last_refill, now)
       IN  /\ AcquireLoop(t, r.tokens, r.last_refill)
           /\ Steps(t, FALSE, r.tokens - current_tokens')
    /\ UNCHANGED <<updateVars, adaptVars, callerVars, cache_locked, expect, unswept, sweepVars, now, cacheVars,
                   lock_waiters, arg, result, last_response, batchVars>>

\* a waiter of the semaphore gets a slot
SemWake(t) ==
    /\ pc[t] = "sem_wait"
    /\ semaphore > 0
    /\ semaphore' = semaphore - 1
    /\ pc' = [pc EXCEPT ![t] = "inflight"]
    /\ Steps(t, FALSE, 0)
    /\ UNCHANGED <<updateVars, adaptVars, callerVars, cache_locked, expect, unswept, sweepVars, now, cacheVars,
                   limiterVars, arg, result, last_response, batchVars>>

\* async with self._semaphore, left by a task: normally or by an exception
ReleaseSemaphoreMutant(r) == IF IsException(r) THEN semaphore ELSE semaphore + 1
ReleaseSemaphore(r) == semaphore + 1

\* the cache after the response was handled
CacheAfterResponseMutant(c, cache_key, r, t) ==
    CacheSetMap(c, cache_key, IF IsException(r) THEN MalformedDoc ELSE r,
                account_cache_ttl, t)
CacheAfterResponse(c, cache_key, r, t) ==
    IF IsException(r) THEN c
    ELSE CacheSetMap(c, cache_key, r, account_cache_ttl, t)

\* the body upstream answers the GET of t with: the account as it was when
\* upstream served the request
Fetched(t, o) ==
    IF o = "ok" /\ arg[t] \in updated /\ t \notin stale
    THEN UpdatedDoc(arg[t])
    ELSE TryBody(arg[t], o)

\* the GETs for the account of u that are in flight when upstream applies the
\* PUT of u: each of them was served before the update or is served after it
Overtaken(u) == {t \in Tasks \ UpdateTasks : pc[t] = "inflight" /\ arg[t] = arg[u]}

\* async with self._semaphore, left by t with r, and what its caller returns
Leave(t, r, value) ==
    /\ semaphore' = ReleaseSemaphore(r)
    /\ Finished(t, value)

\* the upstream call of t ends with outcome o
Response(t, o) ==
    /\ pc[t] = "inflight"
    /\ t \notin UpdateTasks
    /\ LET body == Fetched(t, o)
           r == IF IsException(body) THEN Exc(ExceptClauses(body.id)) ELSE body
       IN  /\ cache' = IF HasCacheKey(t)
                      THEN CacheAfterResponse(cache, CacheKeyOf(arg[t]), r, now)
                      ELSE cache
           /\ unswept' = IF HasCacheKey(t)
                        THEN CacheAfterResponse(unswept, CacheKeyOf(arg[t]), r, now)
                        ELSE unswept
           /\ Leave(t, r, IF HasCacheKey(t) THEN GetAccountResult(r) ELSE HealthCheckResult(r))
    /\ pc' = [pc EXCEPT ![t] = "done"]
    /\ last_response' = o
    /\ stale' = stale \ {t}
    /\ UNCHANGED <<updated, trail, adaptVars, callerVars, cache_locked, expect, sweepVars, now,
                   ret, op, last_set, limiterVars, arg,
                   account_ids, batch_i, accounts, batch_pc>>

\* update_account after _make_request: await self.cache_manager.delete(cache_key)
Invalidate(c, cache_key, r) == IF IsException(r) THEN c ELSE CacheDeleteMap(c, cache_key)

\* the PUT of update_account ends with outcome o: upstream has applied the
\* update when it answers with success, after serving the GETs in served;
\* update_account then deletes the cache key and returns True
UpdateResponse(u, o, served) ==
    /\ pc[u] = "inflight"
    /\ u \in UpdateTasks
    /\ served \subseteq Overtaken(u)
    /\ LET body == TryBody(arg[u], o)
           r == IF IsException(body) THEN Exc(ExceptClauses(body.id)) ELSE body
       IN  /\ cache' = Invalidate(cache, CacheKeyOf(arg[u]), r)
           /\ unswept' = Invalidate(unswept, CacheKeyOf(arg[u]), r)
           /\ updated' = IF IsException(r) THEN updated ELSE updated \cup {arg[u]}
           /\ stale' = IF IsException(r) \/ arg[u] \in updated THEN stale ELSE stale \cup served
           /\ Leave(u, r, UpdateAccountResult(r))
    /\ pc' = [pc EXCEPT ![u] = "done"]
    /\ last_response' = o
    /\ UNCHANGED <<trail, adaptVars, callerVars, cache_locked, expect, sweepVars, now,
                   ret, op, last_set, limiterVars, arg,
                   account_ids, batch_i, accounts, batch_pc>>

\* a caller outside any batch calls get_account(id)
SoloCall(t, id) ==
    /\ t \in SoloTasks
    /\ pc[t] = "none"
    /\ pc' = [pc EXCEPT ![t] = "created"]
    /\ arg' = [arg EXCEPT ![t] = id]
    /\ UNCHANGED <<updateVars, trail, adaptVars, callerVars, cache_locked, expect, unswept, sweepVars, now, cacheVars,
                   limiterVars, semaphore, result, last_response, batchVars>>

\* a caller calls update_account(account) for the account id
UpdateCall(u, id) ==
    /\ u \in UpdateTasks
    /\ pc[u] = "none"
    /\ pc' = [pc EXCEPT ![u] = "created"]
    /\ arg' = [arg EXCEPT ![u] = id]
    /\ UNCHANGED <<updateVars, trail, adaptVars, callerVars, cache_locked, expect, unswept,
                   sweepVars, now, cacheVars, limiterVars, semaphore, result, last_response,
                   batchVars>>

\* a caller outside any batch calls health_check(): a GET with no cache key
HealthCall(t) ==
    /\ t \in SoloTasks
    /\ pc[t] = "none"
    /\ pc' = [pc EXCEPT ![t] = "created"]
    /\ arg' = [arg EXCEPT ![t] = NoId]
    /\ UNCHANGED <<updateVars, trail, adaptVars, callerVars, cache_locked, expect, unswept, sweepVars, now,
                   cacheVars, limiterVars, semaphore, result, last_response, batchVars>>

(***************************************************************************)
(* OpenTextService.get_accounts_batch                                      *)
(***************************************************************************)
InputLists == UNION {[1..n -> Ids] : n \in 0..MaxItems}

\* the positions of account_ids[i:i + batch_size] in a list of length len
Chunk(i, len) == (i + 1)..Min(i + batch_size, len)

\* asyncio.gather(*tasks, return_exceptions=True)
return_exceptions_mutant == FALSE
return_exceptions == TRUE

\* the list gather returns for the n tasks of the chunk starting at i
GatherMutant(i, n) == [j \in 1..n |-> result[done_order[j]]]
Gather(i, n) == [j \in 1..n |-> result[i + j]]

\* gather hands control back to the batch coroutine
GatherReadyMutant(i, len) == \E p \in Chunk(i, len) : pc[p] = "done"
GatherReady(i, len) ==
    \/ \A p \in Chunk(i, len) : pc[p] = "done"
    \/ /\ ~return_exceptions
       /\ \E p \in Chunk(i, len) : pc[p] = "done" /\ IsException(result[p])

\* the test that appends a gathered result to the returned list
KeepResultMutant(v) == ~IsException(v)
KeepResult(v) == IsAccount(v)

\* the for loop of get_accounts_batch at index i: create the tasks of the next
\* chunk and wait in gather, or return when the list is used up
BatchLoop(i, ids) ==
    /\ batch_i' = i
    /\ IF i < Len(ids)
       THEN /\ batch_pc' = "gathering"
            /\ done_order' = << >>
            /\ pc' = [t \in Tasks |-> IF t \in Chunk(i, Len(ids)) THEN "created" ELSE pc[t]]
            /\ arg' = [t \in Tasks |-> IF t \in Chunk(i, Len(ids)) THEN ids[t] ELSE arg[t]]
       ELSE /\ batch_pc' = "returned"
            /\ UNCHANGED <<pc, arg, done_order>>

BatchCall(ids) ==
    /\ batch_pc = "idle"
    /\ account_ids' = ids
    /\ accounts' = << >>
    /\ BatchLoop(0, ids)
    /\ UNCHANGED <<updateVars, trail, adaptVars, callerVars, cache_locked, expect, unswept, sweepVars, now, cacheVars,
                   limiterVars, semaphore, result, last_response>>

BatchCollect ==
    /\ batch_pc = "gathering"
    /\ GatherReady(batch_i, Len(account_ids))
    /\ LET n == Cardinality(Chunk(batch_i, Len(account_ids)))
           batch_results == Gather(batch_i, n)
       IN  IF ~return_exceptions /\ \E j \in 1..n : IsException(batch_results[j])
           THEN /\ batch_pc' = "raised"
                /\ UNCHANGED <<accounts, batch_i, done_order, pc, arg>>
           ELSE /\ accounts' = accounts \o SelectSeq(batch_results, KeepResult)
                /\ BatchLoop(batch_i + batch_size, account_ids)
    /\ UNCHANGED <<updateVars, trail, adaptVars, callerVars, cache_locked, expect, unswept, sweepVars, now, cacheVars,
                   limiterVars, semaphore, result, last_response,
                   account_ids>>

(***************************************************************************)
(* RateLimiter and AdaptiveRateLimiter called directly                     *)
(*                                                                         *)
(* requests_per_second is a float: the model keeps it in thousandths and   *)
(* rounds a product down to the next thousandth.                           *)
(***************************************************************************)
RateScale == 1000

Max(a, b) == IF a >= b THEN a ELSE b

\* AdaptiveRateLimiter.__init__ defaults, in thousandths
min_requests_per_second == 1 * RateScale

max_requests_per_second == 100 * RateScale

adaptation_factor == RateScale \div 10

\* the tasks that call the limiter directly
Callers == (MaxItems + 2)..(MaxItems + 1 + MaxCallers)

StatusCodes == {200, 429, 500}

\* response times in seconds, on both sides of the 1.0 and 5.0 thresholds
ResponseTimes == {0, 1, 5, 6}

NoResponseData == [status_code |-> 0, response_time |-> 0, is_error |-> FALSE]

ResponseData ==
    [status_code : StatusCodes, response_time : ResponseTimes, is_error : BOOLEAN]

Call(name, n, data) == [name |-> name, n |-> n, data |-> data]

NoCall == Call("none", 0, NoResponseData)

Calls ==
    {Call(name, n, NoResponseData) : name \in {"acquire", "try_acquire"}, n \in 1..MaxAsked}
        \cup {Call("reset", 0, NoResponseData), Call("get_available_tokens", 0, NoResponseData)}
        \cup {Call("record_response", 0, d) : d \in ResponseData}

\* int(x) of a rate kept in thousandths
IntOf(rate) == rate \div RateScale

\* RateLimiter._refill_tokens at time t with the rate and capacity of the moment
RefillMutant(tokens, lr, t, rate, capacity) ==
    IF lr = NoTime THEN [tokens |-> tokens, last_refill |-> t]
    ELSE LET tokens_to_add == (t - lr) * rate
         IN  IF tokens_to_add >= 1 * RateScale
             THEN [tokens |-> tokens + IntOf(tokens_to_add), last_refill |-> t]
             ELSE [tokens |-> tokens, last_refill |-> lr]
RefillFromStart(tokens, lr, t, rate, capacity) ==
    LET since == IF lr = NoTime THEN 0 ELSE lr
        tokens_to_add == (t - since) * rate
    IN  IF tokens_to_add >= 1 * RateScale
        THEN [tokens |-> Min(capacity, tokens + IntOf(tokens_to_add)), last_refill |-> t]
        ELSE [tokens |-> tokens, last_refill |-> since]
RefillKeepsTime(tokens, lr, t, rate, capacity) ==
    IF lr = NoTime THEN [tokens |-> tokens, last_refill |-> t]
    ELSE [tokens |-> Min(capacity, tokens + IntOf((t - lr) * rate)), last_refill |-> lr]
RefillEager(tokens, lr, t, rate, capacity) ==
    IF lr = NoTime THEN [tokens |-> tokens, last_refill |-> t]
    ELSE [tokens |-> Min(capacity, tokens + IntOf((t - lr) * rate)), last_refill |-> t]
Refill(tokens, lr, t, rate, capacity) ==
    IF lr = NoTime THEN [tokens |-> tokens, last_refill |-> t]
    ELSE LET tokens_to_add == (t - lr) * rate
         IN  IF tokens_to_add >= 1 * RateScale
             THEN [tokens |-> Min(capacity, tokens + IntOf(tokens_to_add)), last_refill |-> t]
             ELSE [tokens |-> tokens, last_refill |-> lr]

\* asyncio.sleep(tokens_needed / requests_per_second) started at sl.start is over
SleepOverAt(sl, t, rate) == (t - sl.start) * rate >= sl.needed * RateScale

\* AdaptiveRateLimiter._adjust_rate: the rate before the bounds are applied
NewRateMutant(rate, d) ==
    IF d.is_error THEN (rate * (RateScale - adaptation_factor)) \div RateScale
    ELSE IF d.status_code = 429
    THEN (rate * (RateScale - adaptation_factor * 2)) \div RateScale
    ELSE IF d.response_time > 5
    THEN (rate * (RateScale - adaptation_factor \div 2)) \div RateScale
    ELSE IF d.status_code = 200 /\ d.response_time < 1
    THEN (rate * (RateScale + adaptation_factor \div 5)) \div RateScale
    ELSE rate
NewRate(rate, d) ==
    CASE d.status_code = 429 -> (rate * (RateScale - adaptation_factor * 2)) \div RateScale
      [] d.status_code # 429 /\ d.is_error ->
             (rate * (RateScale - adaptation_factor)) \div RateScale
      [] d.status_code # 429 /\ ~d.is_error /\ d.response_time > 5 ->
             (rate * (RateScale - adaptation_factor \div 2)) \div RateScale
      [] d.status_code = 200 /\ ~d.is_error /\ d.response_time < 1 ->
             (rate * (RateScale + adaptation_factor \div 5)) \div RateScale
      [] OTHER -> rate

\* AdaptiveRateLimiter._adjust_rate: one of the if / elif tests is true, so
\* that the final else, which returns at once, is not reached
Adjusts(d) ==
    \/ d.status_code = 429
    \/ d.is_error
    \/ d.response_time > 5
    \/ d.status_code = 200 /\ d.response_time < 1

\* AdaptiveRateLimiter._adjust_rate: the rate and the capacity it leaves
AdjustRateNoMax(rate, capacity, d) ==
    LET new_rate == Max(min_requests_per_second, NewRate(rate, d))
    IN  IF Adjusts(d) /\ new_rate # rate
        THEN [rps |-> new_rate, cap |-> IntOf(new_rate)]
        ELSE [rps |-> rate, cap |-> capacity]
AdjustRateKeepsCap(rate, capacity, d) ==
    LET new_rate == Max(min_requests_per_second, Min(max_requests_per_second, NewRate(rate, d)))
    IN  IF Adjusts(d) /\ new_rate # rate
        THEN [rps |-> new_rate, cap |-> capacity]
        ELSE [rps |-> rate, cap |-> capacity]
AdjustRateMutant(rate, capacity, d) ==
    LET new_rate == Min(max_requests_per_second, NewRate(rate, d))
    IN  IF Adjusts(d) /\ new_rate # rate
        THEN [rps |-> new_rate, cap |-> IntOf(new_rate)]
        ELSE [rps |-> rate, cap |-> capacity]
AdjustRate(rate, capacity, d) ==
    LET new_rate == Max(min_requests_per_second, Min(max_requests_per_second, NewRate(rate, d)))
    IN  IF Adjusts(d) /\ new_rate # rate
        THEN [rps |-> new_rate, cap |-> IntOf(new_rate)]
        ELSE [rps |-> rate, cap |-> capacity]

\* a limiter call as the last operation: what was asked and the token count
\* the call found when it took its decision
LimOp(name, n, before) == [name |-> name, key |-> "", n |-> n, before |-> before]

\* acquire: while self.current_tokens < tokens
WhileBelowMutant(tokens, n, slept) == tokens < n /\ ~slept
WhileBelow(tokens, n, slept) == tokens < n

\* try_acquire: if self.current_tokens >= tokens
EnoughTokensMutant(tokens, n) == tokens >= 1
EnoughTokensStrict(tokens, n) == tokens > n
EnoughTokens(tokens, n) == tokens >= n

\* the sleeps of one acquire are counted up to the number of instants of the
\* clock, which no acquire exceeds while the clock stays on its grid
MaxWaits == Cardinality(Times)

\* the tokens of a run that keeps no count of the tokens granted
NoCount == 0 - 1

\* the count of granted tokens after self.current_tokens -= n
Count(count, n) == IF count = NoCount THEN NoCount ELSE count + n

\* acquire from the test of its loop to its next suspension or its return,
\* holding the lock
LimAcquireLoop(c, n, tokens, lr, slept) ==
    /\ last_refill' = lr
    /\ IF WhileBelow(tokens, n, slept)
       THEN /\ current_tokens' = tokens
            /\ limiter_lock' = c
            /\ sleep' = [start |-> now, needed |-> n - tokens]
            /\ lim_pc' = [lim_pc EXCEPT ![c] = "sleeping"]
            /\ lim_call' = [lim_call EXCEPT ![c] = Call("acquire", n, NoResponseData)]
            /\ waits' = [waits EXCEPT ![c] = IF slept THEN Min(MaxWaits, waits[c] + 1) ELSE 1]
            /\ op' = LimOp("acquire_sleep", n, tokens)
            /\ ret' = ret
            /\ granted' = granted
       ELSE /\ current_tokens' = tokens - n
            /\ limiter_lock' = NoTask
            /\ sleep' = NoSleep
            /\ lim_pc' = [lim_pc EXCEPT ![c] = "idle"]
            /\ lim_call' = [lim_call EXCEPT ![c] = NoCall]
            /\ waits' = [waits EXCEPT ![c] = IF slept THEN waits[c] ELSE 0]
            /\ op' = LimOp("acquire", n, tokens)
            /\ ret' = PyNone
            /\ granted' = Count(granted, n)
    /\ UNCHANGED <<rps, cap, adaptive>>

\* the body of a call that holds the lock from its start to its end
LimAtomic(c, call) ==
    /\ limiter_lock' = NoTask
    /\ sleep' = NoSleep
    /\ lim_pc' = [lim_pc EXCEPT ![c] = "idle"]
    /\ lim_call' = [lim_call EXCEPT ![c] = NoCall]
    /\ waits' = waits
    /\ CASE call.name = "try_acquire" ->
              LET r == Refill(current_tokens, last_refill, now, rps, cap)
              IN  /\ last_refill' = r.last_refill
                  /\ current_tokens' = IF EnoughTokens(r.tokens, call.n)
                                       THEN r.tokens - call.n
                                       ELSE r.tokens
                  /\ ret' = PyBool(EnoughTokens(r.tokens, call.n))
                  /\ op' = LimOp("try_acquire", call.n, r.tokens)
                  /\ granted' = IF EnoughTokens(r.tokens, call.n)
                                THEN Count(granted, call.n)
                                ELSE granted
                  /\ UNCHANGED <<rps, cap, adaptive>>
         [] call.name = "get_available_tokens" ->
              LET r == Refill(current_tokens, last_refill, now, rps, cap)
              IN  /\ last_refill' = r.last_refill
                  /\ current_tokens' = r.tokens
                  /\ ret' = PyInt(r.tokens)
                  /\ op' = LimOp("get_available_tokens", 0, r.tokens)
                  /\ UNCHANGED <<rps, cap, adaptive, granted>>
         [] call.name = "reset" ->
              /\ current_tokens' = cap
              /\ last_refill' = now
              /\ ret' = PyNone
              /\ op' = LimOp("reset", 0, current_tokens)
              /\ UNCHANGED <<rps, cap, adaptive, granted>>
         [] call.name = "record_response" ->
              LET a == AdjustRate(rps, cap, call.data)
              IN  /\ rps' = a.rps
                  /\ cap' = a.cap
                  /\ ret' = PyNone
                  /\ op' = LimOp("record_response", 0, current_tokens)
                  /\ UNCHANGED <<adaptive, current_tokens, last_refill, granted>>

\* a call with the lock in hand
LimBody(c, call) ==
    IF call.name = "acquire"
    THEN LimAcquireLoop(c, call.n, current_tokens, last_refill, FALSE)
    ELSE LimAtomic(c, call)

\* a task calls the limiter: async with self._lock, then the body
LimCall(c, call) ==
    /\ lim_pc[c] = "idle"
    /\ call.name = "record_response" => (adaptive /\ responses < MaxResponses)
    /\ responses' = IF call.name = "record_response" THEN responses + 1 ELSE responses
    /\ IF limiter_lock # NoTask \/ lock_waiters # << >>
       THEN /\ lock_waiters' = Append(lock_waiters, c)
            /\ lim_pc' = [lim_pc EXCEPT ![c] = "lock_wait"]
            /\ lim_call' = [lim_call EXCEPT ![c] = call]
            /\ op' = LimOp("lock_wait", call.n, current_tokens)
            /\ UNCHANGED <<current_tokens, last_refill, limiter_lock, sleep, ret, waits,
                           rps, cap, adaptive, granted>>
       ELSE /\ lock_waiters' = lock_waiters
            /\ LimBody(c, call)
    /\ UNCHANGED <<updateVars, attempts, cache_locked, expect, unswept, sweepVars, now, cache, last_set, semaphore, taskVars,
                   batchVars>>

\* the first waiter of the limiter lock gets it and runs its call
LimLockWake(c) ==
    /\ lim_pc[c] = "lock_wait"
    /\ limiter_lock = NoTask
    /\ lock_waiters # << >>
    /\ Head(lock_waiters) = c
    /\ lock_waiters' = Tail(lock_waiters)
    /\ LimBody(c, lim_call[c])
    /\ UNCHANGED <<updateVars, attempts, responses, cache_locked, expect, unswept, sweepVars, now, cache, last_set, semaphore,
                   taskVars,
                   batchVars>>

\* the sleep inside acquire is over: refill and test again
LimSleepWake(c) ==
    /\ lim_pc[c] = "sleeping"
    /\ limiter_lock = c
    /\ SleepOverAt(sleep, now, rps)
    /\ LET r == Refill(current_tokens, last_refill, now, rps, cap)
       IN  LimAcquireLoop(c, lim_call[c].n, r.tokens, r.last_refill, TRUE)
    /\ UNCHANGED <<updateVars, attempts, responses, cache_locked, expect, unswept, sweepVars, now, cache, last_set,
                   lock_waiters, semaphore,
                   taskVars, batchVars>>

\* a task calls try_acquire(1) on a limiter that only serves such calls, so
\* that the lock is free; the outcome is kept with the time of the call
TryOne(c) ==
    /\ lim_pc[c] = "idle"
    /\ limiter_lock = NoTask
    /\ lock_waiters = << >>
    /\ Len(attempts) < MaxAttempts
    /\ LimAtomic(c, Call("try_acquire", 1, NoResponseData))
    /\ attempts' = Append(attempts, [at |-> now, ok |-> ret' = PyBool(TRUE)])
    /\ UNCHANGED <<updateVars, responses, lock_waiters, cache_locked, expect, unswept, sweepVars, now, cache,
                   last_set, semaphore, taskVars, batchVars>>

\* a task calls record_response on a limiter whose lock is free: the sample
\* is kept with the operation
Respond(c, d) ==
    /\ adaptive
    /\ lim_pc[c] = "idle"
    /\ limiter_lock = NoTask
    /\ lock_waiters = << >>
    /\ LET a == AdjustRate(rps, cap, d)
       IN  /\ rps' = a.rps
           /\ cap' = a.cap
    /\ ret' = PyNone
    /\ op' = [name |-> "record_response", key |-> "", n |-> 0, before |-> current_tokens,
              data |-> d]
    /\ responses' = responses + 1
    /\ UNCHANGED <<updateVars, adaptive, callerVars, cache_locked, expect, unswept, sweepVars, now,
                   cache, last_set, limiterVars, semaphore, taskVars, batchVars>>

\* the clock moves on to a later instant; no request outlives the session's
\* total timeout
Tick(later) ==
    /\ later > now
    /\ later - now > request_timeout => \A t \in Tasks : pc[t] # "inflight"
    /\ now' = later
    /\ op' = [name |-> "tick", key |-> ""]
    /\ UNCHANGED <<updateVars, adaptVars, callerVars, cache_locked, expect, unswept, sweepVars, cache, ret,
                   last_set, limiterVars, semaphore, taskVars, batchVars>>

\* the clock has reached the last instant of the grid and a long time passes:
\* the elapsed times the limiter computes, time.time() - last_refill and the
\* time slept, only grow, and from the length of the grid on every refill
\* fills the bucket and every sleep is over, so the instants are moved back
\* to the start of the grid instead of the clock forward
LongTick ==
    /\ \A later \in Times : later <= now
    /\ last_refill' = IF last_refill = NoTime THEN NoTime ELSE 0
    /\ sleep' = IF sleep = NoSleep THEN NoSleep ELSE [sleep EXCEPT !.start = 0]
    /\ op' = [name |-> "tick", key |-> ""]
    /\ UNCHANGED <<updateVars, adaptVars, callerVars, cache_locked, expect, unswept, sweepVars, now, cache, ret,
                   last_set, current_tokens, limiter_lock, lock_waiters, semaphore, taskVars,
                   batchVars>>

InitOthers ==
    /\ now = 0
    /\ cache = << >>
    /\ ret = PyNone
    /\ op = [name |-> "init", key |-> ""]
    /\ last_set = [k \in Keys |-> NoSet]
    /\ last_refill = NoTime
    /\ limiter_lock = NoTask
    /\ lock_waiters = << >>
    /\ sleep = NoSleep
    /\ updated = {}
    /\ stale = {}
    /\ pc = [t \in Tasks |-> "none"]
    /\ arg = [t \in Tasks |-> NoId]
    /\ result = [t \in Tasks |-> PyNone]
    /\ last_response = NoResponse
    /\ account_ids = << >>
    /\ batch_i = 0
    /\ accounts = << >>
    /\ batch_pc = "idle"
    /\ done_order = << >>
    /\ cache_locked = FALSE
    /\ expect = [k \in Keys |-> Absent]
    /\ unswept = << >>
    /\ sweep_pc = "created"
    /\ sweep_wake = NoTime
    /\ shutdown_pc = "idle"
    /\ shutdowns = 0
    /\ responses = 0
    /\ lim_pc = [c \in Callers |-> "idle"]
    /\ lim_call = [c \in Callers |-> NoCall]
    /\ waits = [c \in Callers |-> 0]
    /\ attempts = << >>
    /\ trail = [t \in Tasks |-> << >>]

\* the service with a RateLimiter(requests_per_second, burst_capacity)
Init ==
    /\ InitOthers
    /\ adaptive = FALSE
    /\ rps = requests_per_second * RateScale
    /\ cap = max_tokens
    /\ current_tokens = max_tokens
    /\ granted = NoCount
    /\ semaphore = max_concurrent_requests

\* OpenTextService(max_concurrent_requests=...): the values the service is
\* run with, the setting's default 10 being one that exceeds the requests made
Concurrencies == {max_concurrent_requests, 10}

\* the service of Init with either number of slots
InitUpdate ==
    /\ InitOthers
    /\ adaptive = FALSE
    /\ rps = requests_per_second * RateScale
    /\ cap = max_tokens
    /\ current_tokens = max_tokens
    /\ granted = NoCount
    /\ semaphore \in Concurrencies

\* a limiter on its own: RateLimiter(requests_per_second, burst_capacity) or
\* AdaptiveRateLimiter(initial_requests_per_second)
InitLimiter ==
    /\ InitOthers
    /\ adaptive \in BOOLEAN
    /\ rps = IF adaptive THEN initial_requests_per_second * RateScale
                         ELSE requests_per_second * RateScale
    /\ cap = IF adaptive THEN IntOf(initial_requests_per_second * RateScale) ELSE max_tokens
    /\ current_tokens = cap
    /\ granted = NoCount
    /\ semaphore = max_concurrent_requests

\* RATE_LIMIT_REQUESTS_PER_SECOND values, in thousandths: negative, zero, a
\* fraction of one and whole numbers
ConfigRates == {0 - RateScale, 0, RateScale \div 2, RateScale, 2 * RateScale}

\* RATE_LIMIT_BURST_CAPACITY: unset (None) or an integer
NoBurst == [none |-> TRUE, value |-> 0]

Burst(b) == [none |-> FALSE, value |-> b]

ConfigBursts == {NoBurst, Burst(0 - 1), Burst(0), Burst(2)}

\* Settings._validate_config: the one test made on the limiter's settings
ValidateConfig(rate) == rate > 0

\* self.max_tokens = burst_capacity or int(requests_per_second)
MaxTokens(rate, burst) ==
    IF ~burst.none /\ burst.value # 0 THEN burst.value ELSE IntOf(rate)

\* the limiter main.py builds from settings that passed validation: a
\* RateLimiter(requests_per_second, burst_capacity) or an
\* AdaptiveRateLimiter(requests_per_second)
InitConfigured ==
    /\ InitOthers
    /\ adaptive \in BOOLEAN
    /\ \E rate \in ConfigRates, burst \in ConfigBursts :
           /\ ValidateConfig(rate)
           /\ rps = rate
           /\ cap = IF adaptive THEN MaxTokens(rate, NoBurst) ELSE MaxTokens(rate, burst)
    /\ current_tokens = cap
    /\ granted = NoCount
    /\ semaphore = max_concurrent_requests

\* the AdaptiveRateLimiter main.py builds from settings that passed validation
InitAdaptive ==
    /\ InitOthers
    /\ adaptive = TRUE
    /\ \E rate \in ConfigRates :
           /\ ValidateConfig(rate)
           /\ rps = rate
           /\ cap = MaxTokens(rate, NoBurst)
    /\ current_tokens = cap
    /\ granted = NoCount
    /\ semaphore = max_concurrent_requests

\* a RateLimiter(requests_per_second, burst_capacity) built from settings that
\* passed validation, whose granted tokens are counted from construction
InitDeliver ==
    /\ InitOthers
    /\ adaptive = FALSE
    /\ \E rate \in ConfigRates, burst \in ConfigBursts :
           /\ ValidateConfig(rate)
           /\ rps = rate
           /\ cap = MaxTokens(rate, burst)
    /\ current_tokens = cap
    /\ granted = 0
    /\ semaphore = max_concurrent_requests

NextCache ==
    \/ \E k \in Keys : Get(k)
    \/ \E k \in Keys, v \in Values, ttl \in TTLs : Set(k, v, ttl)
    \/ \E k \in Keys : Delete(k)
    \/ \E later \in Times : Tick(later)

SpecCache == Init /\ [][NextCache]_vars

\* callers of the whole interface of the cache
NextCacheOps ==
    \/ \E k \in Keys : Get(k)
    \/ \E k \in Keys, v \in Values, ttl \in TTLs : Set(k, v, ttl)
    \/ \E k \in Keys : Delete(k)
    \/ \E k \in Keys : Exists(k)
    \/ \E k \in Keys, ttl \in TTLs : Touch(k, ttl)
    \/ \E p \in Patterns : Clear(p)
    \/ \E p \in Patterns : GetKeys(p)
    \/ \E later \in Times : Tick(later)

SpecCacheOps == Init /\ [][NextCacheOps]_vars

\* callers that mutate and read the cache while the cleanup task runs
NextSweep ==
    \/ \E k \in Keys : Get(k)
    \/ \E k \in Keys, v \in Values, ttl \in TTLs : Set(k, v, ttl)
    \/ \E k \in Keys : Delete(k)
    \/ \E k \in Keys, ttl \in TTLs : Touch(k, ttl)
    \/ \E p \in Patterns : Clear(p)
    \/ SweepStart
    \/ Sweep
    \/ \E later \in Times : Tick(later)

SpecSweep == Init /\ [][NextSweep]_vars

\* tasks that call a limiter directly
NextLimiter ==
    \/ \E c \in Callers, call \in Calls : LimCall(c, call)
    \/ \E c \in Callers : LimLockWake(c)
    \/ \E c \in Callers : LimSleepWake(c)
    \/ \E later \in Times : Tick(later)

SpecLimiter == InitLimiter /\ [][NextLimiter]_vars

\* tasks that only call try_acquire(1)
NextBurst ==
    \/ \E c \in Callers : TryOne(c)
    \/ \E later \in Times : Tick(later)

SpecBurst == InitLimiter /\ [][NextBurst]_vars

\* try_acquire(1) callers of a limiter built from the settings
SpecConfigured == InitConfigured /\ [][NextBurst]_vars

\* one of the first MaxSamples responses, of any kind
RespondAny(c, d) ==
    /\ responses < MaxSamples
    /\ Respond(c, d)

\* tasks that report responses of every kind
NextAdaptive == \E c \in Callers, d \in ResponseData : RespondAny(c, d)

SpecAdaptive == InitAdaptive /\ [][NextAdaptive]_vars

\* record_response(200, t, False) with t < 1.0
GoodSamples ==
    {d \in ResponseData : d.status_code = 200 /\ d.response_time < 1 /\ ~d.is_error}

\* one more good response of a run of at most MaxGoodRun
RespondWell(c, d) ==
    /\ responses < MaxGoodRun
    /\ Respond(c, d)

NextGoodRun == \E c \in Callers, d \in GoodSamples : RespondWell(c, d)

\* a sustained run: the caller keeps reporting good responses
SpecGoodRun == InitAdaptive /\ [][NextGoodRun]_vars /\ WF_vars(NextGoodRun)

\* the calls of the tasks that wait for tokens or report responses
LiveCalls ==
    {Call("acquire", n, NoResponseData) : n \in 1..MaxAsked}
        \cup {Call("record_response", 0, d) : d \in ResponseData}

\* a task calls the limiter and asks for no more tokens than the capacity it
\* finds when it calls
LimCallWithin(c, call) ==
    /\ call.n <= cap
    /\ LimCall(c, call)

\* tasks that call acquire and record_response while time goes on for ever
NextLimiterLive ==
    \/ \E c \in Callers, call \in LiveCalls : LimCallWithin(c, call)
    \/ \E c \in Callers : LimLockWake(c)
    \/ \E c \in Callers : LimSleepWake(c)
    \/ \E later \in Times : Tick(later)
    \/ LongTick

\* the event loop runs every task that is ready, the one whose sleep is over
\* and the one at the head of the lock's queue, and time advances
SpecLimiterLive ==
    /\ InitLimiter
    /\ [][NextLimiterLive]_vars
    /\ WF_vars(\E c \in Callers : LimLockWake(c))
    /\ WF_vars(\E c \in Callers : LimSleepWake(c))
    /\ WF_vars((\E later \in Times : Tick(later)) \/ LongTick)

\* the calls that take tokens or look at the count
DeliverCalls ==
    {Call(name, n, NoResponseData) : name \in {"acquire", "try_acquire"}, n \in 1..MaxAsked}
        \cup {Call("get_available_tokens", 0, NoResponseData)}

\* tasks that take tokens from a base limiter that is never reset
NextDeliver ==
    \/ \E c \in Callers, call \in DeliverCalls : LimCall(c, call)
    \/ \E c \in Callers : LimLockWake(c)
    \/ \E c \in Callers : LimSleepWake(c)
    \/ \E later \in Times : Tick(later)

SpecDeliver == InitDeliver /\ [][NextDeliver]_vars

\* the life of the cleanup task, from construction to shutdown
NextShutdown ==
    \/ \E k \in Keys : Get(k)
    \/ \E k \in Keys, v \in Values, ttl \in TTLs : Set(k, v, ttl)
    \/ SweepStart
    \/ Sweep
    \/ ShutdownCall
    \/ SweepCancelled
    \/ ShutdownReturn
    \/ \E later \in Times : Tick(later)

SpecShutdown == Init /\ [][NextShutdown]_vars

\* the event loop runs every task that is ready: the cleanup task once its
\* cancellation is pending, the shutdown coroutine once the task it awaits is done
SpecShutdownLive ==
    /\ Init
    /\ [][NextShutdown]_vars
    /\ WF_vars(SweepCancelled)
    /\ WF_vars(ShutdownReturn)

Next ==
    \/ \E ids \in InputLists : BatchCall(ids)
    \/ BatchCollect
    \/ \E t \in SoloTasks, id \in Ids : SoloCall(t, id)
    \/ \E t \in Tasks : Start(t)
    \/ \E t \in Tasks : LockWake(t)
    \/ \E t \in Tasks : SleepWake(t)
    \/ \E t \in Tasks : SemWake(t)
    \/ \E t \in Tasks, o \in Outcomes : Response(t, o)
    \/ \E later \in Times : Tick(later)

Spec == Init /\ [][Next]_vars

\* one caller of get_account and one of update_account; the two requests find
\* the two tokens of the bucket, so neither ever waits for the limiter
NextUpdate ==
    \/ \E t \in SoloTasks, id \in Ids : SoloCall(t, id)
    \/ \E u \in UpdateTasks, id \in Ids : UpdateCall(u, id)
    \/ \E t \in Tasks : Start(t)
    \/ \E t \in Tasks : SemWake(t)
    \/ \E t \in Tasks, o \in Outcomes : Response(t, o)
    \/ \E u \in UpdateTasks, o \in Outcomes, served \in SUBSET Tasks : UpdateResponse(u, o, served)
    \/ \E later \in Times : Tick(later)

SpecUpdate == InitUpdate /\ [][NextUpdate]_vars

\* the lists that fill more than one chunk
LiveLists == {ids \in InputLists : Len(ids) = MaxItems}

\* an upstream call ends with the account or with a failure
LiveOutcomes == {"ok", "timeout"}

\* the service while time goes on for ever
NextLive ==
    \/ \E ids \in LiveLists : BatchCall(ids)
    \/ BatchCollect
    \/ \E t \in SoloTasks, id \in Ids : SoloCall(t, id)
    \/ \E t \in Tasks : Start(t)
    \/ \E t \in Tasks : LockWake(t)
    \/ \E t \in Tasks : SleepWake(t)
    \/ \E t \in Tasks : SemWake(t)
    \/ \E t \in Tasks, o \in LiveOutcomes : Response(t, o)
    \/ \E later \in Times : Tick(later)
    \/ LongTick

\* the event loop runs every task that is ready: a task just created, the one
\* at the head of the limiter lock's queue, the one whose sleep is over, a
\* waiter of the semaphore when a slot is free, the batch when its gather is
\* complete; every upstream call ends, and time advances
SpecLive ==
    /\ Init
    /\ [][NextLive]_vars
    /\ WF_vars(\E t \in Tasks : Start(t))
    /\ WF_vars(\E t \in Tasks : LockWake(t))
    /\ WF_vars(\E t \in Tasks : SleepWake(t))
    /\ WF_vars(\E t \in Tasks : SemWake(t))
    /\ WF_vars(\E t \in Tasks, o \in LiveOutcomes : Response(t, o))
    /\ WF_vars(BatchCollect)
    /\ WF_vars((\E later \in Times : Tick(later)) \/ LongTick)

\* the batch, and a single caller of get_account or of health_check
NextRequests ==
    \/ Next
    \/ \E t \in SoloTasks : HealthCall(t)

SpecRequests == Init /\ [][NextRequests]_vars

(***************************************************************************)
(* Properties of the batch fetch                                           *)
(***************************************************************************)
InFlight == {t \in Tasks : pc[t] = "inflight"}

Positions == 1..Len(account_ids)

\* what get_account produced per input position
ItemResults == [p \in Positions |-> result[p]]

C2_FailureIsolated ==
    /\ batch_pc # "raised"
    /\ batch_pc = "returned" =>
           \A p \in Positions :
               /\ pc[p] = "done"
               /\ IsAccount(result[p]) => \E j \in 1..Len(accounts) : accounts[j] = result[p]

C2_Witness ==
    /\ batch_pc = "returned"
    /\ Len(account_ids) > batch_size
    /\ IsException(result[1])
    /\ \A p \in Positions \ {1} : IsAccount(result[p])
    /\ Len(accounts) = Len(account_ids) - 1

\* C3: the returned list preserves input order, within a chunk and across
\* chunks, whatever the order in which the tasks of a chunk finish.
C3_InputOrder ==
    batch_pc = "returned" => accounts = SelectSeq(ItemResults, IsAccount)

C3_Witness ==
    /\ batch_pc = "returned"
    /\ Len(account_ids) = 2
    /\ done_order = <<2, 1>>
    /\ account_ids[1] # account_ids[2]
    /\ accounts = <<Account(account_ids[1]), Account(account_ids[2])>>

\* C4: the number of upstream calls in flight never exceeds
\* max_concurrent_requests, over the batch and the single-item caller together.
C4_ConcurrencyCap == Cardinality(InFlight) <= max_concurrent_requests

C4_Witness ==
    /\ Cardinality(InFlight) = max_concurrent_requests
    /\ \E t \in BatchTasks : pc[t] = "sem_wait"
    /\ \E t \in SoloTasks : pc[t] \in {"sem_wait", "inflight"}

\* C5: every upstream call holds exactly one slot while it is in flight and
\* gives it back however it ends, so free slots plus calls in flight always
\* make max_concurrent_requests: all slots are free when no call is in flight.
C5_NoSlotLeak == semaphore + Cardinality(InFlight) = max_concurrent_requests

C5_Witness ==
    /\ last_response \in Failures
    /\ InFlight = {}
    /\ semaphore = max_concurrent_requests
    /\ \E t \in Tasks : pc[t] = "done" /\ result[t] = PyNone

LiveEntry(k) == k \in DOMAIN cache /\ cache[k].expires_at > now

\* C6 as stated: a request that finds a live cache entry for its key returns
\* that entry's value, takes no rate-limiter token and makes no upstream call,
\* for every stored value, the empty document included.
C6_LiveEntryServed ==
    [][\A t \in Tasks :
          (pc[t] = "created" /\ pc'[t] # "created" /\ LiveEntry(CacheKeyOf(arg[t]))) =>
              /\ pc'[t] = "done"
              /\ result'[t] = GetAccountResult(cache[CacheKeyOf(arg[t])].value)
              /\ current_tokens' = current_tokens]_vars

\* C7: a successful upstream GET stores the response under the cache key with
\* expiry now + the caller's TTL; a failed upstream call leaves the cache map
\* exactly as it was.
C7_CacheOnSuccessOnly ==
    [][\A t \in Tasks :
          (pc[t] = "inflight" /\ pc'[t] = "done") =>
              IF last_response' \in Successes
              THEN /\ DOMAIN cache' = DOMAIN cache \cup {CacheKeyOf(arg[t])}
                   /\ cache'[CacheKeyOf(arg[t])].value = TryBody(arg[t], last_response')
                   /\ cache'[CacheKeyOf(arg[t])].expires_at = now + account_cache_ttl
                   /\ \A k \in DOMAIN cache \ {CacheKeyOf(arg[t])} : cache'[k] = cache[k]
              ELSE cache' = cache]_vars

C7_Witness ==
    /\ last_response \in Successes
    /\ now > 0
    /\ \E k \in DOMAIN cache : cache[k].expires_at = now + account_cache_ttl

\* C8: every failure of the upstream call (error status, client error, timeout,
\* unparsable body) leaves _make_request as an OpenTextAPIError, which the
\* single-item fetch turns into its failure value None; the batch never raises.
C8_UpstreamFailureIsNone ==
    [][/\ \A t \in Tasks :
             (pc[t] = "inflight" /\ pc'[t] = "done" /\ last_response' \in Failures) =>
                 result'[t] = PyNone
       /\ batch_pc' # "raised"]_vars

C8_Witness ==
    /\ last_response = "timeout"
    /\ batch_pc = "returned"
    /\ Len(account_ids) = 1
    /\ result[1] = PyNone
    /\ accounts = << >>

(***************************************************************************)
(* Properties of the cache                                                 *)
(***************************************************************************)
\* C9: get(key) returns absent when the key is missing or its entry has
\* expires_at <= now, and removes the entry in the expired case; otherwise it
\* returns the stored value and leaves the map unchanged.
C9_GetContract ==
    [][\A k \in Keys :
          (op'.name = "get" /\ op'.key = k) =>
              IF k \notin DOMAIN cache
              THEN ret' = PyNone /\ cache' = cache
              ELSE IF cache[k].expires_at <= now
              THEN /\ ret' = PyNone
                   /\ DOMAIN cache' = DOMAIN cache \ {k}
                   /\ \A x \in DOMAIN cache' : cache'[x] = cache[x]
              ELSE ret' = cache[k].value /\ cache' = cache]_vars

C9_Witness ==
    /\ op.name = "get"
    /\ ret = PyNone
    /\ last_set[op.key] # NoSet
    /\ last_set[op.key].at + last_set[op.key].ttl = now
    /\ op.key \notin DOMAIN cache
    /\ DOMAIN cache # {}

\* C10: get(k) after set(k, v, ttl), ttl > 0, with no mutation of k in between
\* returns v while less than ttl has elapsed since the set and absent once ttl
\* has elapsed.
C10_SetThenGet ==
    [][\A k \in Keys :
          (op'.name = "get" /\ op'.key = k /\ last_set[k] # NoSet) =>
              ret' = IF now - last_set[k].at < last_set[k].ttl
                     THEN last_set[k].value
                     ELSE PyNone]_vars

C10_Witness ==
    /\ op.name = "get"
    /\ last_set[op.key] # NoSet
    /\ now > last_set[op.key].at
    /\ now = last_set[op.key].at + last_set[op.key].ttl - 1
    /\ ret = last_set[op.key].value

\* an entry of the map that has expired and has not been removed
ExpiredEntry(k) == k \in DOMAIN cache /\ cache[k].expires_at <= now

\* C11 as stated: an entry whose expires_at <= now is absent through every read
\* operation of the cache (get, exists, touch, get_keys), whether or not the
\* background sweep has removed it from the map.
C11_ExpiredIsAbsent ==
    [][\A k \in Keys :
          ExpiredEntry(k) =>
              /\ (op'.name = "get" /\ op'.key = k) => ret' = PyNone
              /\ (op'.name = "exists" /\ op'.key = k) => ret' = PyBool(FALSE)
              /\ (op'.name = "touch" /\ op'.key = k) => ret' = PyBool(FALSE)
              /\ (op'.name = "get_keys" /\ ~IsException(ret')) => k \notin ret'.keys]_vars

\* C12: concurrent set, delete, get, touch, clear and sweep on a key take effect
\* one at a time: the map never holds anything but the entry the last completed
\* mutation of the key left, and get(k) returns that entry's value while it is
\* live and absent when the mutation was a removal or the entry has expired.
C12_Linearizable ==
    /\ [](\A k \in DOMAIN cache :
              /\ expect[k].present
              /\ cache[k] = CacheEntry(expect[k].value, expect[k].expires_at))
    /\ [][\A k \in Keys :
             (op'.name = "get" /\ op'.key = k) =>
                 ret' = IF expect[k].present /\ expect[k].expires_at > now
                        THEN expect[k].value
                        ELSE PyNone]_vars

C12_Witness ==
    /\ op.name = "get"
    /\ expect[op.key].present
    /\ ret = expect[op.key].value
    /\ last_set[op.key] = NoSet
    /\ sweep_pc = "sleeping"
    /\ sweep_wake > now
    /\ now >= cleanup_interval
    /\ \E k \in Keys \ {op.key} : expect[k].present /\ k \notin DOMAIN cache

\* the keys that Python's re.match accepts for each pattern text, and every
\* key for no pattern
MatchedBy(text) ==
    CASE text = "None" -> Keys
      [] text = "account:.*" -> Keys
      [] text = "account:a" -> {"account:a"}
      [] text = "b" -> {}

\* C13: clear(pattern) removes exactly the keys that match the pattern, returns
\* their number and leaves every other entry as it was; clear() removes every
\* entry and returns the number of entries that were present.
C13_ClearExactlyMatching ==
    [][\A p \in Patterns :
          (op'.name = "clear" /\ op'.key = p.text /\ p.compiles) =>
              /\ DOMAIN cache' = DOMAIN cache \ MatchedBy(p.text)
              /\ ret' = PyInt(Cardinality(DOMAIN cache \cap MatchedBy(p.text)))
              /\ \A k \in DOMAIN cache' : cache'[k] = cache[k]]_vars

C13_Witness ==
    /\ op.name = "clear"
    /\ op.key = "account:a"
    /\ ret = PyInt(1)
    /\ DOMAIN cache = {"account:b"}
    /\ cache["account:b"].expires_at = now + account_cache_ttl

\* C14: clear or get_keys with a malformed pattern fails that call, removes no
\* entry and leaves the lock of the cache released.
C14_MalformedPatternFails ==
    [][\A p \in Patterns :
          (op'.name \in {"clear", "get_keys"} /\ op'.key = p.text /\ ~p.compiles) =>
              /\ IsException(ret')
              /\ cache' = cache
              /\ ~cache_locked']_vars

C14_Witness ==
    /\ op.name = "clear"
    /\ op.key = "account:("
    /\ ret = Exc("re.error")
    /\ DOMAIN cache = Keys
    /\ ~cache_locked

\* C15: touch(key, ttl) returns true exactly when key has a live entry, and then
\* only the expiry of that entry changes, to now + ttl; on an absent or expired
\* key it returns false and changes nothing, and a get(key) that follows
\* returns absent.
C15_TouchContract ==
    [][\A k \in Keys :
          /\ (op'.name = "touch" /\ op'.key = k) =>
                 IF LiveEntry(k)
                 THEN /\ ret' = PyBool(TRUE)
                      /\ DOMAIN cache' = DOMAIN cache
                      /\ cache'[k] = CacheEntry(cache[k].value, now + op'.ttl)
                      /\ \A x \in DOMAIN cache \ {k} : cache'[x] = cache[x]
                 ELSE ret' = PyBool(FALSE) /\ cache' = cache
          /\ (op.name = "touch" /\ op.key = k /\ ret = PyBool(FALSE)
                 /\ op'.name = "get" /\ op'.key = k) => ret' = PyNone]_vars

C15_Witness ==
    /\ op.name = "touch"
    /\ ret = PyBool(FALSE)
    /\ ExpiredEntry(op.key)
    /\ op.ttl = account_cache_ttl

\* C16: when shutdown() returns, the cleanup task has been cancelled and has
\* finished and the map is empty; the cleanup task does nothing after shutdown
\* has returned.
C16_ShutdownStopsSweep ==
    /\ [](shutdown_pc = "returned" => sweep_pc = "finished")
    /\ [][/\ op'.name = "shutdown_return" => (cache' = << >> /\ sweep_pc' = "finished")
          /\ shutdown_pc = "returned" => (sweep_pc' = sweep_pc /\ sweep_wake' = sweep_wake)]_vars

C16_Witness ==
    /\ op.name = "shutdown_return"
    /\ shutdowns = 1
    /\ sweep_pc = "finished"
    /\ sweep_wake > now
    /\ now >= cleanup_interval
    /\ cache = << >>

\* C17: every shutdown() that has to wait for the cleanup task returns, and a
\* second shutdown() returns at once and leaves the cleanup task finished and
\* the map empty.
C17_ShutdownTerminates ==
    /\ (shutdown_pc = "awaiting") ~> (shutdown_pc = "returned")
    /\ [][(shutdowns' = shutdowns + 1 /\ shutdown_pc = "returned") =>
             (shutdown_pc' = "returned" /\ sweep_pc' = "finished" /\ cache' = << >>)]_vars

C17_Witness ==
    /\ op.name = "shutdown_return"
    /\ shutdowns = MaxShutdowns
    /\ sweep_pc = "finished"
    /\ sweep_wake = NoTime
    /\ cache = << >>

(***************************************************************************)
(* Properties of the rate limiter                                          *)
(***************************************************************************)
\* C18 as stated: in every reachable state of a base or adaptive limiter the
\* token count does not exceed the current capacity.
C18_TokensWithinCapacity == current_tokens <= cap

\* C18 amended: a limiter starts with tokens <= capacity and no step raises
\* the token count above the capacity of the moment; the count exceeds the
\* capacity only after record_response has lowered the capacity below it, and
\* while it does no step increases it.
C18_NeverRaisedAboveCapacity ==
    /\ current_tokens <= cap
    /\ [][/\ current_tokens' <= Max(cap', current_tokens)
          /\ (current_tokens <= cap /\ current_tokens' > cap') =>
                 (op'.name = "record_response" /\ cap' < cap
                     /\ current_tokens' = current_tokens)
          /\ ~adaptive => current_tokens' <= cap']_vars

C18_Witness ==
    /\ adaptive
    /\ op.name = "record_response"
    /\ current_tokens > cap
    /\ rps < initial_requests_per_second * RateScale

\* C19: under every interleaving of acquire and try_acquire callers the token
\* count never becomes negative, and every successful call subtracts exactly
\* its n from a count that was >= n when the call took its decision; a refused
\* try_acquire subtracts nothing.
C19_NoTokenGrantedTwice ==
    /\ [](current_tokens >= 0)
    /\ [][/\ op'.name = "acquire" =>
                 (op'.before >= op'.n /\ current_tokens' = op'.before - op'.n)
          /\ op'.name = "try_acquire" =>
                 IF ret' = PyBool(TRUE)
                 THEN op'.before >= op'.n /\ current_tokens' = op'.before - op'.n
                 ELSE op'.before < op'.n /\ current_tokens' = op'.before
          /\ op'.name \in {"acquire", "try_acquire"} =>
                 op'.before <= Max(cap, current_tokens)]_vars

C19_Witness ==
    /\ op.name = "acquire"
    /\ op.n = MaxAsked
    /\ current_tokens = 0
    /\ \E c \in Callers :
           /\ lim_pc[c] = "idle"
           /\ waits[c] >= 1
           /\ \E d \in Callers \ {c} :
                  lim_pc[d] = "lock_wait" /\ lim_call[d].name = "try_acquire"

\* C20: acquire(n) returns only after subtracting exactly n from a count that
\* was >= n; while the count is below n it subtracts nothing and sleeps
\* (n - tokens) / rate, and after every sleep it refills and tests the count
\* again, returning only if the count has reached n.
C20_AcquireRechecks ==
    [][/\ op'.name = "acquire" =>
             (op'.before >= op'.n /\ current_tokens' = op'.before - op'.n)
       /\ op'.name = "acquire_sleep" =>
             /\ op'.before < op'.n
             /\ current_tokens' = op'.before
             /\ sleep' = [start |-> now, needed |-> op'.n - op'.before]
       /\ \A c \in Callers :
             (lim_pc[c] = "sleeping" /\ lim_pc'[c] = "idle") =>
                 /\ op'.name = "acquire"
                 /\ (now - sleep.start) * rps >= sleep.needed * RateScale
                 /\ last_refill' # NoTime
       /\ \A c \in Callers :
             (lim_pc[c] = "sleeping" /\ op'.name = "acquire_sleep") =>
                 /\ lim_pc'[c] = "sleeping"
                 /\ waits'[c] = waits[c] + 1
                 /\ (now - sleep.start) * rps >= sleep.needed * RateScale]_vars

C20_Witness ==
    /\ op.name = "acquire"
    /\ limiter_lock = NoTask
    /\ \E c \in Callers :
           /\ lim_pc[c] = "idle"
           /\ waits[c] >= 2
           /\ \A d \in Callers \ {c} : waits[d] = 0 /\ lim_pc[d] = "idle"

\* C21 as stated: under fair scheduling and advancing time every acquire(n)
\* called with 1 <= n <= capacity eventually returns; no waiter waits for ever.
C21_AcquireReturns ==
    \A c \in Callers :
        (lim_pc[c] # "idle" /\ lim_call[c].name = "acquire" /\ lim_call[c].n >= 1
             /\ lim_call[c].n <= cap)
            ~> (lim_pc[c] = "idle")

\* C22 as stated: try_acquire(n) never waits: it refills, decides and returns in
\* the step in which it is called, also when another task is suspended in the
\* sleep of acquire.
C22_TryAcquireNeverWaits ==
    \A c \in Callers : ~(lim_pc[c] = "lock_wait" /\ lim_call[c].name = "try_acquire")

\* C23: on a full bucket of capacity c that refills c tokens per second, the
\* first c try_acquire(1) calls made at one instant succeed, the next call at
\* that instant is refused, and a call made one second or more later succeeds.
C23_BurstThenRefill ==
    (rps = cap * RateScale /\ attempts # << >>) =>
        LET first == attempts[1].at
        IN  /\ \A i \in 1..Len(attempts) :
                   (i <= cap /\ attempts[i].at = first) => attempts[i].ok
            /\ (Len(attempts) > cap /\ attempts[cap + 1].at = first) =>
                   ~attempts[cap + 1].ok
            /\ (Len(attempts) > cap + 1 /\ attempts[cap + 1].at = first
                    /\ attempts[cap + 2].at >= first + 1) =>
                   attempts[cap + 2].ok

C23_Witness ==
    /\ rps = cap * RateScale
    /\ cap >= 2
    /\ Len(attempts) = cap + 2
    /\ \A i \in 1..(cap + 1) : attempts[i].at = 0 /\ attempts[i].ok = (i <= cap)
    /\ attempts[cap + 2] = [at |-> 1, ok |-> TRUE]
    /\ current_tokens = cap - 1

\* C24 as stated: no limiter is built with a non-positive rate or capacity:
\* such a construction fails, so every limiter that serves calls has a
\* positive rate and a positive capacity.
C24_PositiveRateAndCapacity == rps > 0 /\ cap > 0

(***************************************************************************)
(* Properties of the adaptive rate                                         *)
(***************************************************************************)
\* C25 as stated: in every state of an adaptive limiter, from its construction
\* on and after any record_response calls, the rate lies within
\* [min_requests_per_second, max_requests_per_second].
C25_RateWithinBounds ==
    adaptive => (min_requests_per_second <= rps /\ rps <= max_requests_per_second)

\* the factor, in thousandths, of the first rule of the list that the sample
\* matches; 0 when it matches none
RuleFactor(d) ==
    IF d.status_code = 429 THEN RateScale - 2 * adaptation_factor
    ELSE IF d.is_error THEN RateScale - adaptation_factor
    ELSE IF d.response_time > 5 THEN RateScale - adaptation_factor \div 2
    ELSE IF d.status_code = 200 /\ d.response_time < 1
    THEN RateScale + adaptation_factor \div 5
    ELSE 0

\* a rate brought back into [min_requests_per_second, max_requests_per_second]
Bounded(rate) == Max(min_requests_per_second, Min(max_requests_per_second, rate))

\* C26: every record_response multiplies the rate by one factor, that of the
\* first rule its sample matches in the order 429, is_error, response_time >
\* 5.0, 200 with response_time < 1.0, and bounds the product; a sample that
\* matches several rules gets the first one's factor only, and a sample that
\* matches none leaves rate and capacity as they were.
C26_FirstMatchingRule ==
    [][op'.name = "record_response" =>
          IF RuleFactor(op'.data) = 0
          THEN rps' = rps /\ cap' = cap
          ELSE rps' = Bounded((rps * RuleFactor(op'.data)) \div RateScale)]_vars

C26_Witness ==
    /\ op.name = "record_response"
    /\ op.data = [status_code |-> 429, response_time |-> 6, is_error |-> TRUE]
    /\ responses = 1
    /\ rps = (2 * RateScale * (RateScale - 2 * adaptation_factor)) \div RateScale
    /\ cap = IntOf(rps)

\* C27: on a limiter whose rate is above min_requests_per_second,
\* record_response(429, t, False) leaves a rate strictly below the rate it
\* found and not below min_requests_per_second.
C27_TooManyRequestsLowersRate ==
    [][(/\ op'.name = "record_response"
        /\ op'.data.status_code = 429
        /\ ~op'.data.is_error
        /\ rps > min_requests_per_second) =>
           (rps' < rps /\ rps' >= min_requests_per_second)]_vars

C27_Witness ==
    /\ op.name = "record_response"
    /\ op.data.status_code = 429
    /\ ~op.data.is_error
    /\ responses = MaxSamples
    /\ rps = min_requests_per_second
    /\ cap = IntOf(min_requests_per_second)
    /\ current_tokens > cap

\* C28: along a sustained run of record_response(200, t, False) calls with
\* t < 1.0 every call that finds the rate below max_requests_per_second leaves
\* a strictly higher rate, no call leaves a rate above the maximum, and the
\* rate eventually equals the maximum.
C28_GoodRunReachesMax ==
    /\ [][op'.name = "record_response" =>
             /\ rps < max_requests_per_second => rps' > rps
             /\ rps' <= max_requests_per_second]_vars
    /\ <>(rps = max_requests_per_second)

C28_Witness ==
    /\ op.name = "record_response"
    /\ op.data \in GoodSamples
    /\ rps = max_requests_per_second
    /\ cap = IntOf(max_requests_per_second)
    /\ responses < MaxGoodRun

(***************************************************************************)
(* Properties of the order of the steps of a request                       *)
(***************************************************************************)
\* the chunk of the batch that input position p belongs to, counted from 0
ChunkOf(p) == (p - 1) \div batch_size

\* C29: within one batch fetch no item of a later chunk exists as a task, and
\* so none starts its cache check, its acquire or its upstream call, before
\* every item of every earlier chunk has produced its result.
C29_ChunkAfterChunk ==
    \A p \in Positions, q \in Positions :
        (ChunkOf(p) < ChunkOf(q) /\ pc[q] # "none") => pc[p] = "done"

C29_Witness ==
    /\ batch_pc = "gathering"
    /\ \E q \in Positions :
           /\ ChunkOf(q) = 1
           /\ pc[q] = "inflight"
           /\ \A p \in Positions : ChunkOf(p) = 0 => pc[p] = "done"
    /\ \E p \in Positions : ChunkOf(p) = 0 /\ result[p] = PyNone
    /\ done_order = << >>

\* the steps of the request of task t when it goes all the way upstream
RequestSteps(t) ==
    IF HasCacheKey(t) THEN <<"lookup", "token", "upstream">> ELSE <<"token", "upstream">>

IsPrefix(a, b) == Len(a) <= Len(b) /\ a = SubSeq(b, 1, Len(a))

\* the requests that have taken the step
Took(step) == {t \in Tasks : \E j \in 1..Len(trail[t]) : trail[t][j] = step}

\* C30 as stated: every upstream call is preceded in its request by a cache
\* lookup and then by the consumption of exactly one token, and the upstream
\* calls started never outnumber the tokens consumed by acquire.
C30_LookupTokenUpstream ==
    /\ \A t \in Tasks : IsPrefix(trail[t], <<"lookup", "token", "upstream">>)
    /\ \A t \in Tasks : pc[t] = "inflight" => t \in Took("upstream")
    /\ Cardinality(Took("upstream")) <= Cardinality(Took("token"))

\* C30 amended: every upstream call is preceded in its request by the
\* consumption of exactly one token, and before that by a cache lookup when
\* the request is a GET with a cache key; a request with no cache key
\* (health_check) makes no lookup. The upstream calls started never outnumber
\* the tokens consumed by acquire.
C30_TokenThenUpstream ==
    /\ \A t \in Tasks : IsPrefix(trail[t], RequestSteps(t))
    /\ \A t \in Tasks : pc[t] = "inflight" => trail[t] = RequestSteps(t)
    /\ Cardinality(Took("upstream")) <= Cardinality(Took("token"))

C30_Witness ==
    /\ \E t \in SoloTasks :
           /\ ~HasCacheKey(t)
           /\ pc[t] = "inflight"
           /\ trail[t] = <<"token", "upstream">>
    /\ \E p \in BatchTasks :
           /\ pc[p] = "sem_wait"
           /\ trail[p] = <<"lookup", "token">>
    /\ \E p \in BatchTasks :
           /\ pc[p] = "done"
           /\ trail[p] = <<"lookup">>

(***************************************************************************)
(* Properties of the background sweep                                      *)
(***************************************************************************)
\* C31: a sweep removes every entry whose expires_at <= now at sweep time and
\* no other: each entry that is live when the sweep runs stays as it is, also
\* the entry a set or a touch of the same key has just written or prolonged.
C31_SweepRemovesExpiredOnly ==
    [][op'.name = "sweep" =>
          /\ DOMAIN cache' = {k \in DOMAIN cache : cache[k].expires_at > now}
          /\ \A k \in DOMAIN cache' : cache'[k] = cache[k]
          /\ op'.removed = {k \in DOMAIN cache : cache[k].expires_at <= now}
          /\ \A k \in Keys :
                 (expect[k].present /\ expect[k].expires_at > now) =>
                     /\ k \in DOMAIN cache'
                     /\ cache'[k] = CacheEntry(expect[k].value, expect[k].expires_at)]_vars

C31_Witness ==
    /\ op.name = "sweep"
    /\ \E k \in op.removed : expect[k].present /\ expect[k].expires_at = now
    /\ \E k \in DOMAIN cache :
           /\ last_set[k] = NoSet
           /\ cache[k].expires_at = now + 1

\* C32: the results of get do not depend on the sweep: under the same set,
\* delete, touch, clear and get calls and the same clock, every get returns in
\* the cache whose sweep runs at arbitrary points the value it returns in a
\* cache whose sweep never runs.
C32_GetIndependentOfSweep ==
    [][op'.name = "get" => ret' = CacheGetValue(unswept, op'.key, now)]_vars

C32_Witness ==
    /\ op.name = "get"
    /\ ret # PyNone
    /\ \E k \in DOMAIN unswept :
           /\ k \notin DOMAIN cache
           /\ unswept[k].expires_at <= now
    /\ sweep_pc = "sleeping"
    /\ sweep_wake = now + cleanup_interval

(***************************************************************************)
(* Properties of the refill                                                *)
(***************************************************************************)
\* the step about to be taken runs _refill_tokens: a try_acquire, a
\* get_available_tokens, or the wake-up of the sleep of an acquire
RefillStep ==
    \/ op'.name \in {"try_acquire", "get_available_tokens"}
    \/ op'.name \in {"acquire", "acquire_sleep"} /\ sleep # NoSleep

\* C33: a refill check on a limiter that was refilled before computes
\* tokens_to_add = elapsed * rate; when tokens_to_add >= 1 it leaves
\* min(capacity, tokens + floor(tokens_to_add)) tokens and last_refill = now,
\* and when tokens_to_add < 1 it leaves the tokens and last_refill as they were.
C33_RefillRule ==
    [][(RefillStep /\ last_refill # NoTime) =>
          LET tokens_to_add == (now - last_refill) * rps
          IN  IF tokens_to_add >= RateScale
              THEN /\ op'.before = Min(cap, current_tokens + tokens_to_add \div RateScale)
                   /\ last_refill' = now
              ELSE /\ op'.before = current_tokens
                   /\ last_refill' = last_refill]_vars

C33_Witness ==
    /\ op.name = "try_acquire"
    /\ rps < RateScale
    /\ Len(attempts) = 2
    /\ attempts[2].at = now
    /\ last_refill # NoTime
    /\ last_refill < now
    /\ (now - last_refill) * rps < RateScale

\* C34: whenever record_response changes the rate the capacity becomes
\* floor(new rate), and record_response never changes the token count or
\* last_refill, whatever it does to the rate.
C34_RateChangeKeepsTokens ==
    [][op'.name = "record_response" =>
          /\ rps' # rps => cap' = rps' \div RateScale
          /\ current_tokens' = current_tokens
          /\ last_refill' = last_refill]_vars

C34_Witness ==
    /\ op.name = "record_response"
    /\ rps < initial_requests_per_second * RateScale
    /\ cap = rps \div RateScale
    /\ cap < initial_requests_per_second
    /\ current_tokens = 0
    /\ last_refill # NoTime
    /\ last_refill < now
    /\ \E c \in Callers : lim_pc[c] = "lock_wait"

\* C35 as stated: once a rate decrease has left the token count above the new
\* capacity, the next refill check (in try_acquire, in get_available_tokens or
\* after the sleep of acquire) brings the count down to the capacity, whatever
\* time has passed since the last refill.
C35_NextRefillClamps ==
    [][(RefillStep /\ current_tokens > cap) => op'.before <= cap]_vars

\* C36 as stated: in every reachable state of a rate limiter the capacity is
\* an integer > 0, also for a base limiter built with requests_per_second < 1
\* and no burst capacity and after every adaptive rate change.
C36_CapacityAtLeastOne == cap >= 1

(***************************************************************************)
(* Properties of the tokens delivered                                      *)
(***************************************************************************)
\* C37: a base limiter of capacity c >= 1 and fixed rate r that is never reset
\* has granted, through acquire and try_acquire together, at most c + r * T
\* tokens at every time T after its construction.
C37_NeverOverDelivers ==
    (granted # NoCount /\ cap >= 1) =>
        granted * RateScale <= cap * RateScale + rps * now

C37_Witness ==
    /\ granted # NoCount
    /\ cap = 2
    /\ rps = RateScale
    /\ now = 1
    /\ granted = cap + 1
    /\ op.name = "acquire"
    /\ current_tokens = 0
    /\ \E c \in Callers : lim_pc[c] = "lock_wait" /\ lim_call[c].name = "try_acquire"

\* C38: the first refill check of a limiter, whose last_refill is None, adds
\* no token and only sets last_refill to now; so an acquire that found such a
\* limiter short of tokens is not served when its first sleep is over: it
\* sleeps a second time.
C38_FirstRefillAddsNothing ==
    [][/\ (RefillStep /\ last_refill = NoTime) =>
             (op'.before = current_tokens /\ last_refill' = now)
       /\ \A c \in Callers :
             (/\ lim_pc[c] = "sleeping"
              /\ waits[c] = 1
              /\ last_refill = NoTime
              /\ op'.name \in {"acquire", "acquire_sleep"}) =>
                 /\ op'.name = "acquire_sleep"
                 /\ lim_pc'[c] = "sleeping"
                 /\ waits'[c] = 2
                 /\ current_tokens' = current_tokens]_vars

C38_Witness ==
    /\ op.name = "acquire_sleep"
    /\ current_tokens = 0
    /\ last_refill = now
    /\ sleep.start = now
    /\ now >= 1
    /\ \E c \in Callers : lim_pc[c] = "sleeping" /\ waits[c] = 2 /\ lim_call[c].n = 1

(***************************************************************************)
(* Properties of update_account                                            *)
(***************************************************************************)
\* the update of u has returned True
Updated(u) == pc[u] = "done" /\ result[u] = PyBool(TRUE)

\* the cache holds for the account of u the record as it was before the update
HoldsOldRecord(u) ==
    /\ CacheKeyOf(arg[u]) \in DOMAIN cache
    /\ cache[CacheKeyOf(arg[u])].value = AccountDoc(arg[u])

\* C39 as stated: once update_account has returned True the cache holds no
\* entry for the account's key that was fetched before the update, under every
\* interleaving with get_account calls for the same key; an update that fails
\* leaves the cache as it was.
C39_UpdateInvalidates ==
    /\ [](\A u \in UpdateTasks : Updated(u) => ~HoldsOldRecord(u))
    /\ [][\A u \in UpdateTasks :
             (pc[u] = "inflight" /\ pc'[u] = "done" /\ result'[u] = PyBool(FALSE)) =>
                 cache' = cache]_vars

(***************************************************************************)
(* Properties of progress                                                  *)
(***************************************************************************)
\* the requests that have started and not finished
Unfinished == {t \in Tasks : pc[t] \notin {"none", "done"}}

\* t waits for the limiter lock or for a slot of the semaphore and cannot be
\* given it in this state
Blocked(t) ==
    \/ pc[t] = "lock_wait" /\ ~(limiter_lock = NoTask /\ Head(lock_waiters) = t)
    \/ pc[t] = "sem_wait" /\ semaphore = 0

\* C40: with a limiter of capacity >= 1 and upstream calls that all end, the
\* cache lock is never held while a task is suspended, in no state is every
\* unfinished request blocked on the limiter lock or on the semaphore, and
\* every batch fetch that was called returns.
C40_NoDeadlock ==
    /\ [](cap >= 1 => (~cache_locked /\ (Unfinished # {} => \E t \in Unfinished : ~Blocked(t))))
    /\ (cap >= 1 /\ batch_pc = "gathering") ~> (batch_pc = "returned")
    /\ \A t \in Tasks : (cap >= 1 /\ pc[t] = "created") ~> (pc[t] = "done")

C40_Witness ==
    /\ batch_pc = "returned"
    /\ Len(account_ids) = MaxItems
    /\ \A t \in Tasks \ UpdateTasks : pc[t] = "done" /\ Len(trail[t]) = 3
    /\ now >= account_cache_ttl
    /\ last_refill = 0

====
